---- MODULE Spec2Model ----
\* Model of the gleam-engine OpenGL render pipeline:
\*   Renderer::Impl (src/src/renderer/gl/gl_renderer_impl.cpp) and
\*   GLPrograms     (src/src/renderer/gl/gl_programs.cpp).
\* One Render call is one action; the calls it makes are recorded, in program
\* order, in the variable trace.
EXTENDS Integers, Sequences, FiniteSets, TLC

VARIABLES
    scene,                        \* the scene's nodes (meshes and lights), in traversal order
    touched_,                     \* Scene::touched_
    opaque_, transparent_, lights_,   \* RenderLists: Opaque(), Transparent(), Lights()
    programs_,                    \* GLPrograms::programs_ : key -> GLProgram
    depth_mask,                   \* GL depth-write mask held by state_
    blending,                     \* GL blending switch held by state_
    rendered_objects_counter_,
    rendered_objects_per_frame_,
    trace,                        \* calls made by the last Render, in order
    crashed,                      \* the process died (null dereference / out-of-bounds access)
    last_op,                      \* the operation performed last
    rebuilds,                     \* ProcessScene calls since the last scene mutation
    provider_calls,               \* key -> number of GetShaderSource calls
    compile_calls,                \* key -> number of GLProgram constructions
    info_logs,                    \* number of "Creating a new shader program" entries
    calls,                        \* the direct GetProgram calls so far: key and returned handle
    light_result,                 \* what the last UpdateLights call did
    fog,                          \* Scene::fog
    camera,                       \* the camera: world transform and view_transform
    frustum_,                     \* Renderer::Impl::frustum_
    bounding_sphere               \* the BoundingSphere debug node, once constructed

vars == <<scene, touched_, opaque_, transparent_, lights_, programs_, depth_mask,
          blending, rendered_objects_counter_, rendered_objects_per_frame_, trace,
          crashed, last_op, rebuilds, provider_calls, compile_calls, info_logs,
          calls, light_result, fog, camera, frustum_, bounding_sphere>>

----------------------------------------------------------------------------
\* Bounds of the model

MaxNodes == 3          \* nodes in a scene
MaxCalls == 4          \* direct GetProgram calls in a run
MaxLights == 4         \* lights in a light list (slot-assignment runs)
MaxCapLights == 10     \* lights in a light list (capacity runs)

----------------------------------------------------------------------------
\* Program constants

NumLightSlots == 9     \* std::array<std::string, 9> light_uniforms

----------------------------------------------------------------------------
\* Sequential code is written as a chain of steps, each taking the state the
\* step before it left.  Then(x, F) is F applied to the value of x, with x
\* evaluated once.
Then(x, F(_)) == CHOOSE y \in {F(v) : v \in {x}} : TRUE

----------------------------------------------------------------------------
\* Inputs: materials, meshes, lights

MaterialTypes == {"FlatMaterial", "PhongMaterial", "ShaderMaterial"}

\* What the shader library and the GL compiler make of a variant:
\*   good = sources that compile and link, bad = sources with a compile/link
\*   error, zero = glCreateProgram gave id 0, none = no sources for the variant.
ShaderKinds == {"good", "bad", "zero", "none"}

\* a material: its type, what its shader variant compiles to, whether it has
\* a texture map and is flat shaded, and the names in ShaderMaterial::uniforms
Material(type, shader, texture_map, flat_shaded) ==
    [type |-> type, shader |-> shader, texture_map |-> texture_map,
     flat_shaded |-> flat_shaded,
     uniforms |-> IF type = "ShaderMaterial" THEN <<"u_Time", "u_Scale">> ELSE <<>>]

Materials ==
    {Material("FlatMaterial", "good", FALSE, FALSE),
     Material("PhongMaterial", "good", FALSE, FALSE)}
    \cup {Material("ShaderMaterial", k, FALSE, FALSE) : k \in ShaderKinds}

GeometryStates == {"ok", "disposed", "no_vertex_data", "no_attributes"}

PrimitiveTypes == {"Triangles", "Lines", "LineLoop"}

\* Positions are points of one axis.  The camera's home is Home; a mesh at
\* Away is out of the view from Home and in the view from Away.
Home == 0
Away == 3

\* a mesh with its geometry: state, primitive type, number of indices and of
\* vertices; at is the centre of its bounding sphere in world space
MeshOf(g, at, t, m, primitive, indices, vertices) ==
    [node |-> "mesh", geometry |-> g, at |-> at, transparent |-> t, material |-> m,
     primitive |-> primitive, index_count |-> indices, vertex_count |-> vertices]

\* an indexed triangle, in the view from Home (v) or out of it
Mesh(g, v, t, m) ==
    MeshOf(g, IF v THEN Home ELSE Away, t, m, "Triangles", 3, 3)

FogTypes == {"LinearFog", "ExponentialFog"}
NoFog == "none"

LightTypes == {"AmbientLight", "DirectionalLight", "PointLight", "SpotLight"}

Light(t, c, i) == [node |-> "light", type |-> t, color |-> c, intensity |-> i]

\* (color, intensity) pairs of the lights
LightValues == {<<1, 1>>, <<2, 3>>}

Lights == {Light(t, v[1], v[2]) : t \in LightTypes, v \in LightValues}

----------------------------------------------------------------------------
\* ProgramAttributes: the shader variant a material needs under the active lights

HasLight(lights, t) == \E i \in 1..Len(lights) : lights[i].type = t

ProgramKey(material, lights, scene_fog) ==
    [type |-> material.type, shader |-> material.shader,
     texture_map |-> material.texture_map,
     flat_shaded |-> material.flat_shaded,
     directional |-> HasLight(lights, "DirectionalLight"),
     point |-> HasLight(lights, "PointLight"),
     spot |-> HasLight(lights, "SpotLight"),
     fog |-> scene_fog]

ProgramAttributes(material, lights, scene_fog) ==
    [type |-> material.type,
     key |-> ProgramKey(material, lights, scene_fog),
     lights |-> material.type = "PhongMaterial",
     texture_map |-> material.texture_map,
     flat_shaded |-> material.flat_shaded,
     directional_lights |-> HasLight(lights, "DirectionalLight"),
     point_lights |-> HasLight(lights, "PointLight"),
     spot_lights |-> HasLight(lights, "SpotLight")]

\* the attributes GetProgram is called with directly, and their keys
ProgramInputs == {ProgramAttributes(m, <<>>, NoFog) : m \in Materials}

ProgramKeys == {attrs.key : attrs \in ProgramInputs}

----------------------------------------------------------------------------
\* GLPrograms: the shader program cache

NullHandle == 0

\* ShaderLibrary::GetShaderSource: the vertex and fragment sources of the
\* variant, empty when there is no such variant
GetShaderSource(attrs) ==
    IF attrs.key.shader = "none" THEN <<>>
    ELSE <<[stage |-> "vertex", text |-> attrs.key.shader],
           [stage |-> "fragment", text |-> attrs.key.shader]>>

\* the address of the next GLProgram object: one never handed out before
NewObject(progs) ==
    1 + Cardinality(DOMAIN progs)

\* GLProgram::GLProgram: compiles and links; errors are kept in has_errors_
GLProgram(sources, object) ==
    [object |-> object,
     program_ |-> IF sources[1].text = "zero" THEN 0 ELSE object,
     has_errors_ |-> \E i \in 1..Len(sources) : sources[i].text = "bad"]

\* IsValid() that forgets the error flag
IsValid_IgnoresErrors(program) == program.program_ > 0

IsValid(program) == ~program.has_errors_ /\ program.program_ > 0

\* programs_.contains(key), never finding the key
Contains_Never(progs, key) == FALSE

\* programs_.contains(key)
Contains(progs, key) == key \in DOMAIN progs

\* an insertion that drops every other entry of the cache
Insert_Evicting(progs, key, program) == [k \in {key} |-> program]

\* programs_[key] = program
Insert(progs, key, program) ==
    [k \in DOMAIN progs \cup {key} |-> IF k = key THEN program ELSE progs[k]]

\* GetProgram that leaves an entry behind for a key without sources
GetProgram_InsertsOnMiss(progs, attrs) ==
    LET key == attrs.key
        sources == GetShaderSource(attrs)
        program == IF sources = <<>>
                   THEN [object |-> NullHandle, program_ |-> 0, has_errors_ |-> TRUE]
                   ELSE GLProgram(sources, NewObject(progs))
    IN  IF ~Contains(progs, key)
        THEN [programs |-> Insert(progs, key, program), handle |-> program.object,
              queried |-> TRUE, compiled |-> sources # <<>>, logged |-> sources # <<>>]
        ELSE [programs |-> progs, handle |-> progs[key].object,
              queried |-> FALSE, compiled |-> FALSE, logged |-> FALSE]

\* GetProgram that logs the creation before it has looked at the sources
GetProgram_LogsEveryMiss(progs, attrs) ==
    LET key == attrs.key
        sources == GetShaderSource(attrs)
    IN  IF ~Contains(progs, key)
        THEN IF sources = <<>>
             THEN [programs |-> progs, handle |-> NullHandle,
                   queried |-> TRUE, compiled |-> FALSE, logged |-> TRUE]
             ELSE [programs |-> Insert(progs, key, GLProgram(sources, NewObject(progs))),
                   handle |-> NewObject(progs),
                   queried |-> TRUE, compiled |-> TRUE, logged |-> TRUE]
        ELSE [programs |-> progs, handle |-> progs[key].object,
              queried |-> FALSE, compiled |-> FALSE, logged |-> FALSE]

\* GLPrograms::GetProgram.  handle is the returned pointer (NullHandle for
\* nullptr); queried, compiled and logged tell what the call did on the way.
GetProgram(progs, attrs) ==
    LET key == attrs.key IN
    IF ~Contains(progs, key)
    THEN LET sources == GetShaderSource(attrs) IN
         IF sources = <<>>
         THEN [programs |-> progs, handle |-> NullHandle,
               queried |-> TRUE, compiled |-> FALSE, logged |-> FALSE]
         ELSE LET program == GLProgram(sources, NewObject(progs))
                  inserted == Insert(progs, key, program)
              IN  [programs |-> inserted, handle |-> inserted[key].object,
                   queried |-> TRUE, compiled |-> TRUE, logged |-> TRUE]
    ELSE [programs |-> progs, handle |-> progs[key].object,
          queried |-> FALSE, compiled |-> FALSE, logged |-> FALSE]

----------------------------------------------------------------------------
\* Renderer::Impl::UpdateLights

\* std::to_underlying(LightType)
LightTypeTag(t) ==
    CASE t = "AmbientLight" -> 0
      [] t = "DirectionalLight" -> 1
      [] t = "PointLight" -> 2
      [] t = "SpotLight" -> 3

NoSlot == -1           \* the slot of a uniform that is not a member of u_Lights[]

\* program->SetUniform(light_uniforms[slot] + field, value); from is the
\* position in the light list of the light the value was read from
Write(slot, field, value, from) ==
    [slot |-> slot, field |-> field, value |-> value, from |-> from]

\* the members written after .Type for one non-ambient light (geometry values
\* are not computed: only the light they come from is kept)
SlotFields(type) ==
    CASE type = "DirectionalLight" -> <<".Color", ".Direction">>
      [] type = "PointLight" ->
            <<".Color", ".Position", ".Base", ".Linear", ".Quadratic">>
      [] type = "SpotLight" ->
            <<".Color", ".Direction", ".Position", ".ConeCos", ".PenumbraCos",
              ".Base", ".Linear", ".Quadratic">>
      [] OTHER -> <<>>

SlotWrites(light, idx, from) ==
    IF light.type = "AmbientLight" THEN <<>>
    ELSE <<Write(idx, ".Type", LightTypeTag(light.type), from)>> \o
         [k \in 1..Len(SlotFields(light.type)) |->
             Write(idx, SlotFields(light.type)[k],
                   IF SlotFields(light.type)[k] = ".Color"
                   THEN light.color * light.intensity ELSE 0,
                   from)]

\* ambient_light after one light of the loop
AmbientAfter(ambient_light, light) ==
    IF light.type = "AmbientLight" THEN light.color * light.intensity
    ELSE ambient_light

\* idx advanced for every light, ambient ones included
IdxAfter_EveryLight(idx, light) == idx + 1

\* idx after one light of the loop
IdxAfter(idx, light) ==
    IF light.type \in {"DirectionalLight", "PointLight", "SpotLight"}
    THEN idx + 1 ELSE idx

\* the index used in light_uniforms[idx] for the light at position i, whatever its type
LookupIndex(idx, light) == idx

\* The loop from position i on.  An index past the array is undefined
\* behaviour: oob = "abort" is the build that traps on it, oob = "continue"
\* the build that goes on with whatever lies behind the array.
RECURSIVE UpdateLightsFrom(_, _, _, _)
UpdateLightsFrom(lights, i, st, oob) ==
    IF i > Len(lights) THEN st
    ELSE Then(st, LAMBDA s :
            LET light == lights[i]
                at == LookupIndex(s.idx, light)
            IN  IF at >= NumLightSlots /\ oob = "abort"
                THEN [s EXCEPT !.lookups = Append(@, at), !.aborted = TRUE]
                ELSE UpdateLightsFrom(lights, i + 1,
                        [s EXCEPT
                           !.lookups = Append(@, at),
                           !.ambient_light = AmbientAfter(@, light),
                           !.writes = @ \o SlotWrites(light, at, i),
                           !.idx = IdxAfter(@, light)],
                        oob))

UpdateLights(lights, oob) ==
    Then(UpdateLightsFrom(lights, 1,
            [called |-> TRUE, idx |-> 0, ambient_light |-> 0,
             writes |-> <<>>, lookups |-> <<>>, aborted |-> FALSE], oob),
         LAMBDA st :
            IF st.aborted THEN st
            ELSE [st EXCEPT !.writes =
                    Append(@, Write(NoSlot, "u_AmbientLight", st.ambient_light, 0))])

NoLightResult ==
    [called |-> FALSE, idx |-> 0, ambient_light |-> 0, writes |-> <<>>,
     lookups |-> <<>>, aborted |-> FALSE]

OutOfBoundsOutcomes == {"abort", "continue"}

----------------------------------------------------------------------------
\* BoundingSphere: the debug geometry of a sphere, three rings of line segments

MaxCoord == 1      \* the centre's coordinates are in -MaxCoord..MaxCoord
MaxRadius == 4     \* the radius is in 1..MaxRadius

Segments == 64     \* constexpr auto segments = 64.0f

Coords == (0 - MaxCoord)..MaxCoord

Spheres == [center : Coords \X Coords \X Coords, radius : 1..MaxRadius]

NoBoundingSphere == [constructed |-> FALSE]

\* a coordinate of a ring vertex: base + radius * fn(theta), theta being
\* (step / segments) * two_pi; fn is "none" for the coordinate left at base
Coord(base, radius, fn, step) ==
    [base |-> base, radius |-> radius, fn |-> fn, step |-> step]

\* lines 36-50: the point of the ring of the axis at step i
RingVertex(sphere, axis, i) ==
    LET c == sphere.center
        rad == sphere.radius
    IN  CASE axis = 0 -> <<Coord(c[1], rad, "cos", i), Coord(c[2], rad, "sin", i),
                           Coord(c[3], rad, "none", i)>>
          [] axis = 1 -> <<Coord(c[1], rad, "cos", i), Coord(c[2], rad, "none", i),
                           Coord(c[3], rad, "sin", i)>>
          [] OTHER    -> <<Coord(c[1], rad, "none", i), Coord(c[2], rad, "cos", i),
                           Coord(c[3], rad, "sin", i)>>

\* a segment from the current vertex to the one after it
SegmentIndices_FromCurrent(offset, i) == <<offset + i, offset + i + 1>>

\* lines 57-58: the segment from the vertex before to the current one
SegmentIndices(offset, i) == <<offset + i - 1, offset + i>>

\* the tuples F(lo), ..., F(hi), each of the given width, laid end to end
Flat(lo, hi, width, F(_)) ==
    [k \in 1..(width * (hi - lo + 1)) |->
        F(lo + ((k - 1) \div width))[((k - 1) % width) + 1]]

\* lines 35-60: for (i = 0; i <= segments; ++i): every step appends a vertex
\* (three floats), every step but the first a segment (two indices)
Ring(g, sphere, axis, offset) ==
    [vertices |-> g.vertices
                  \o Flat(0, Segments, 3, LAMBDA i : RingVertex(sphere, axis, i)),
     indices |-> g.indices
                 \o Flat(1, Segments, 2, LAMBDA i : SegmentIndices(offset, i))]

\* lines 33-61: for (axis = 0; axis < 3; ++axis), from the given axis on;
\* offset is the number of vertices emitted so far
RECURSIVE AxesFrom(_, _, _)
AxesFrom(g, sphere, axis) ==
    Then(g, LAMBDA v :
        IF axis >= 3 THEN v
        ELSE AxesFrom(Ring(v, sphere, axis, Len(v.vertices) \div 3),
                      sphere, axis + 1))

\* BoundingSphere::CreateGeometry: the flat vertex data (3 floats a vertex),
\* the index data and the primitive type
CreateGeometry(sphere) ==
    Then(AxesFrom([vertices |-> <<>>, indices |-> <<>>], sphere, 0), LAMBDA g :
        [vertices |-> g.vertices, indices |-> g.indices,
         primitive |-> "Lines", item_size |-> 3])

----------------------------------------------------------------------------
\* The renderer while a frame runs: r holds the fields a Render call changes
\*   [programs, depth_mask, blending, counter, trace, crashed, light_result,
\*    frustum]
\* and what the frame reads: view (camera->view_transform) and fog (scene->fog)

\* one call made by the frame: the mesh (list and position in the list) it was
\* made for, the depth-write mask and the running counter at that moment, and
\* what the call was given (arg)
Event(r, op, list, pos, arg) ==
    [op |-> op, list |-> list, pos |-> pos,
     depth |-> r.depth_mask, count |-> r.counter, arg |-> arg]

EmitWith(r, op, list, pos, arg) ==
    Then(r, LAMBDA v : [v EXCEPT !.trace = Append(@, Event(v, op, list, pos, arg))])

Emit(r, op, list, pos) == EmitWith(r, op, list, pos, <<>>)

\* a fatal fault: the process is gone from here on
Fault(r, list, pos) ==
    [Emit(r, "fault", list, pos) EXCEPT !.crashed = TRUE]

\* GLState::SetDepthMask
SetDepthMask(r, flag) ==
    Emit([r EXCEPT !.depth_mask = flag], "SetDepthMask", "none", 0)

\* GLState::ProcessMaterial: material-derived state; blending follows the
\* material's transparency
ProcessMaterial(r, mesh, list, pos) ==
    Emit([r EXCEPT !.blending = mesh.transparent], "ProcessMaterial", list, pos)

\* Renderer::Impl::IsValidMesh: the warning logged for the mesh, "" if none
MeshWarning(mesh) ==
    CASE mesh.geometry = "disposed" -> "disposed geometry"
      [] mesh.geometry = "no_vertex_data" -> "no geometry data"
      [] mesh.geometry = "no_attributes" -> "no geometry attributes"
      [] OTHER -> ""

\* IsValidMesh without the check of the attributes
IsValidMesh_NoAttributeCheck(mesh) ==
    mesh.geometry \notin {"disposed", "no_vertex_data"}

IsValidMesh(mesh) == MeshWarning(mesh) = ""

\* Camera::SetViewTransform: the view transform is the inverse of the camera's
\* world transform
ViewOf(transform) == 0 - transform

\* how far the view reaches on either side of the camera
HalfWidth == 1

\* Frustum::SetWithViewProjection: the planes that bound the view
FrustumOf(view) == [lo |-> (0 - view) - HalfWidth, hi |-> (0 - view) + HalfWidth]

\* Frustum::IntersectsWithSphere, for a sphere centred at a point
IntersectsWithSphere(frustum, at) == frustum.lo <= at /\ at <= frustum.hi

\* Renderer::Impl::IsVisible: the mesh's bounding sphere against frustum_
IsVisible(mesh, frustum) == IntersectsWithSphere(frustum, mesh.at)

\* a default-constructed Frustum: planes that cull nothing
DefaultFrustum == [lo |-> Home - Away, hi |-> Home + Away]

\* the frame culling with the planes it already has
RefreshFrustum_KeepsPlanes(r) == Emit(r, "SetWithViewProjection", "none", 0)

\* line 55: frustum_ is set from the camera's projection and view transforms
RefreshFrustum(r) ==
    EmitWith([r EXCEPT !.frustum = FrustumOf(r.view)],
             "SetWithViewProjection", "none", 0, <<r.view>>)

\* lines 130-133: the uniforms every program is offered
CommonUniforms == <<"u_Projection", "u_ModelView", "u_Opacity", "u_Resolution">>

\* fog uniforms uploaded without looking at the variant
FogUniforms_NoBranch(scene_fog) ==
    IF scene_fog = NoFog THEN <<>>
    ELSE <<"u_Fog.Type", "u_Fog.Color", "u_Fog.Near", "u_Fog.Far", "u_Fog.Density">>

\* lines 135-151: the fog uniforms, by the fog's variant
FogUniforms(scene_fog) ==
    IF scene_fog = NoFog THEN <<>>
    ELSE <<"u_Fog.Type">>
         \o (IF scene_fog = "LinearFog"
             THEN <<"u_Fog.Color", "u_Fog.Near", "u_Fog.Far">> ELSE <<>>)
         \o (IF scene_fog = "ExponentialFog"
             THEN <<"u_Fog.Type", "u_Fog.Color", "u_Fog.Density">> ELSE <<>>)

\* lines 156-160 and 174-178: the texture of a textured variant
TextureUniforms(attrs) ==
    IF attrs.texture_map
    THEN <<"u_TextureMap", "u_TextureTransform", "textures_.Bind">> ELSE <<>>

\* lines 153-161
FlatUniforms(attrs) ==
    IF attrs.type = "FlatMaterial" THEN <<"u_Color">> \o TextureUniforms(attrs)
    ELSE <<>>

\* lines 163-180
PhongUniforms(attrs) ==
    IF attrs.type = "PhongMaterial"
    THEN (IF attrs.directional_lights \/ attrs.point_lights \/ attrs.spot_lights
          THEN <<"u_Material.DiffuseColor", "u_Material.SpecularColor",
                 "u_Material.Shininess">>
               \o (IF ~attrs.flat_shaded THEN <<"u_NormalMatrix">> ELSE <<>>)
          ELSE <<>>)
         \o TextureUniforms(attrs)
    ELSE <<>>

\* lines 182-187: every entry of ShaderMaterial::uniforms
ShaderUniforms(material, attrs) ==
    IF attrs.type = "ShaderMaterial" THEN material.uniforms ELSE <<>>

\* Renderer::Impl::SetUniforms: the names it sets, in call order
SetUniforms(r, mesh, attrs, list, pos) ==
    EmitWith(r, "SetUniforms", list, pos,
             CommonUniforms \o FogUniforms(r.fog) \o FlatUniforms(attrs)
             \o PhongUniforms(attrs) \o ShaderUniforms(mesh.material, attrs))

\* lines 98-104: the GL primitive of the geometry's primitive type
Primitive(mesh) ==
    CASE mesh.primitive = "Lines" -> "GL_LINES"
      [] mesh.primitive = "LineLoop" -> "GL_LINE_LOOP"
      [] OTHER -> "GL_TRIANGLES"

\* a draw that never uses the index data
DrawCall_NeverIndexed(mesh) ==
    <<"glDrawArrays", Primitive(mesh), mesh.vertex_count>>

\* lines 106-115: the draw call, its primitive and its element count
DrawCall(mesh) ==
    IF mesh.index_count = 0
    THEN <<"glDrawArrays", Primitive(mesh), mesh.vertex_count>>
    ELSE <<"glDrawElements", Primitive(mesh), mesh.index_count>>

\* light uniforms uploaded for every variant
NeedsLights_AnyVariant(attrs, lights) == lights # <<>>

\* line 87: attrs.lights && !render_lists_->Lights().empty()
NeedsLights(attrs, lights) == attrs.lights /\ lights # <<>>

\* program->IsValid() through a null pointer is undefined behaviour: the read
\* faults, or it yields bytes that make IsValid() false or true
NullDerefOutcomes == {"fault", "reads_invalid", "reads_valid"}

\* RenderMesh binding the geometry before it uploads the light uniforms
DrawMesh_BindFirst(r, mesh, attrs, list, pos, lights, oob) ==
    LET r1 == Emit(ProcessMaterial(r, mesh, list, pos), "Bind", list, pos)
        lit == NeedsLights(attrs, lights)
        r2 == IF lit
              THEN Emit([r1 EXCEPT !.light_result = UpdateLights(lights, oob)],
                        "UpdateLights", list, pos)
              ELSE r1
    IN  Then(r2, LAMBDA v :
            IF lit /\ v.light_result.aborted THEN Fault(v, list, pos)
            ELSE LET r4 == SetUniforms(v, mesh, attrs, list, pos)
                     r5 == Emit(r4, "UseProgram", list, pos)
                     r6 == Emit(r5, "UpdateUniforms", list, pos)
                     r7 == EmitWith(r6, "draw", list, pos, DrawCall(mesh))
                     r8 == [r7 EXCEPT !.counter = @ + 1]
                 IN  Emit(r8, "return", list, pos))

\* RenderMesh from line 85 on, with a usable program
DrawMesh(r, mesh, attrs, list, pos, lights, oob) ==
    LET r1 == ProcessMaterial(r, mesh, list, pos)
        lit == NeedsLights(attrs, lights)
        r2 == IF lit
              THEN Emit([r1 EXCEPT !.light_result = UpdateLights(lights, oob)],
                        "UpdateLights", list, pos)
              ELSE r1
    IN  Then(r2, LAMBDA v :
            IF lit /\ v.light_result.aborted THEN Fault(v, list, pos)
            ELSE LET r3 == Emit(v, "Bind", list, pos)
                     r4 == SetUniforms(r3, mesh, attrs, list, pos)
                     r5 == Emit(r4, "UseProgram", list, pos)
                     r6 == Emit(r5, "UpdateUniforms", list, pos)
                     r7 == EmitWith(r6, "draw", list, pos, DrawCall(mesh))
                     r8 == [r7 EXCEPT !.counter = @ + 1]
                 IN  Emit(r8, "return", list, pos))

\* RenderMesh from line 85 on, with a null program taken for a valid one:
\* the first uniform upload goes through the null pointer
DrawWithNull(r, mesh, attrs, list, pos, lights) ==
    LET r1 == ProcessMaterial(r, mesh, list, pos)
    IN  IF NeedsLights(attrs, lights)
        THEN Fault(Emit(r1, "UpdateLights", list, pos), list, pos)
        ELSE Fault(Emit(Emit(r1, "Bind", list, pos), "SetUniforms", list, pos),
                   list, pos)

\* the events of a GetProgram call
GetProgramEvents(r, got, list, pos) ==
    LET r1 == Emit(r, "GetProgram", list, pos)
        r2 == IF got.queried THEN Emit(r1, "GetShaderSource", list, pos) ELSE r1
    IN  IF got.compiled THEN Emit(r2, "new GLProgram", list, pos) ELSE r2

\* RenderMesh resolving the program before it tests the visibility
RenderMesh_ResolvesFirst(r, mesh, list, pos, lights, ub, oob) ==
    Then(Emit(r, "RenderMesh", list, pos), LAMBDA r0 :
    IF ~IsValidMesh(mesh)
    THEN Emit(Emit(r0, "warning", list, pos), "return", list, pos)
    ELSE LET attrs == ProgramAttributes(mesh.material, lights, r0.fog) IN
         Then(GetProgram(r0.programs, attrs), LAMBDA got :
         Then(EmitWith(GetProgramEvents([r0 EXCEPT !.programs = got.programs],
                                        got, list, pos),
                       "IsVisible", list, pos, <<r0.frustum>>), LAMBDA r1 :
         IF ~IsVisible(mesh, r1.frustum)
         THEN Emit(Emit(r1, "culled", list, pos), "return", list, pos)
         ELSE IF got.handle = NullHandle
         THEN LET r2 == Emit(r1, "null program", list, pos) IN
              CASE ub = "fault" -> Fault(r2, list, pos)
                [] ub = "reads_invalid" -> Emit(r2, "return", list, pos)
                [] OTHER -> DrawWithNull(r2, mesh, attrs, list, pos, lights)
         ELSE IF ~IsValid(got.programs[attrs.key])
         THEN Emit(Emit(r1, "invalid program", list, pos), "return", list, pos)
         ELSE DrawMesh(r1, mesh, attrs, list, pos, lights, oob))))

\* Renderer::Impl::RenderMesh
RenderMesh(r, mesh, list, pos, lights, ub, oob) ==
    Then(Emit(r, "RenderMesh", list, pos), LAMBDA r0 :
    IF ~IsValidMesh(mesh)
    THEN Emit(Emit(r0, "warning", list, pos), "return", list, pos)
    ELSE Then(EmitWith(r0, "IsVisible", list, pos, <<r0.frustum>>), LAMBDA rv :
    IF ~IsVisible(mesh, rv.frustum)
    THEN Emit(Emit(rv, "culled", list, pos), "return", list, pos)
    ELSE LET attrs == ProgramAttributes(mesh.material, lights, rv.fog) IN
         Then(GetProgram(rv.programs, attrs), LAMBDA got :
         LET r1 == GetProgramEvents([rv EXCEPT !.programs = got.programs],
                                    got, list, pos)
         IN  IF got.handle = NullHandle
             THEN LET r2 == Emit(r1, "null program", list, pos) IN
                  CASE ub = "fault" -> Fault(r2, list, pos)
                    [] ub = "reads_invalid" -> Emit(r2, "return", list, pos)
                    [] OTHER -> DrawWithNull(r2, mesh, attrs, list, pos, lights)
             ELSE IF ~IsValid(got.programs[attrs.key])
             THEN Emit(Emit(r1, "invalid program", list, pos), "return", list, pos)
             ELSE DrawMesh(r1, mesh, attrs, list, pos, lights, oob))))

\* for (auto mesh : list) RenderMesh(mesh, scene, camera), from position i on
RECURSIVE RenderList(_, _, _, _, _, _, _)
RenderList(r, meshes, list, i, lights, ub, oob) ==
    Then(r, LAMBDA v :
        IF v.crashed \/ i > Len(meshes) THEN v
        ELSE RenderList(RenderMesh(v, meshes[i], list, i, lights, ub, oob),
                        meshes, list, i + 1, lights, ub, oob))

\* line 61: depth writes go off before a non-empty transparent list
DepthMaskOff(r, transparent) ==
    IF transparent # <<>> THEN SetDepthMask(r, FALSE) ELSE r

\* the frame ending without restoring depth writes
DepthMaskOn_Skipped(r) == r

\* line 66: depth writes go back on
DepthMaskOn(r) == SetDepthMask(r, TRUE)

\* the frame's count published, the counter left running
PublishCount_NoReset(r) ==
    Then(r, LAMBDA v : [v EXCEPT !.per_frame = v.counter])

\* lines 68-69: the frame's count is published and the counter reset
PublishCount(r) ==
    Then(r, LAMBDA v : [v EXCEPT !.per_frame = v.counter, !.counter = 0])

\* RenderObjects iterating the transparent list first
RenderObjects_TransparentFirst(r, opaque, transparent, lights, ub, oob) ==
    LET r1 == RefreshFrustum(r)
        r2 == DepthMaskOff(r1, transparent)
        r3 == RenderList(r2, transparent, "transparent", 1, lights, ub, oob)
        r4 == Then(r3, LAMBDA v : IF v.crashed THEN v ELSE DepthMaskOn(v))
        r5 == RenderList(r4, opaque, "opaque", 1, lights, ub, oob)
    IN  Then(r5, LAMBDA v :
            IF v.crashed THEN v
            ELSE Emit(PublishCount(v), "RenderObjects returns", "none", 0))

\* Renderer::Impl::RenderObjects
RenderObjects(r, opaque, transparent, lights, ub, oob) ==
    LET r1 == RefreshFrustum(r)
        r2 == RenderList(r1, opaque, "opaque", 1, lights, ub, oob)
        r3 == Then(r2, LAMBDA v :
                 IF v.crashed THEN v ELSE DepthMaskOff(v, transparent))
        r4 == RenderList(r3, transparent, "transparent", 1, lights, ub, oob)
    IN  Then(r4, LAMBDA v :
            IF v.crashed THEN v
            ELSE Emit(PublishCount(DepthMaskOn(v)), "RenderObjects returns", "none", 0))

----------------------------------------------------------------------------
\* RenderLists::ProcessScene: one traversal of the scene's nodes

IsOpaqueMesh(n) == n.node = "mesh" /\ ~n.transparent
IsTransparentMesh(n) == n.node = "mesh" /\ n.transparent
IsLight(n) == n.node = "light"

ProcessScene(nodes) ==
    [opaque |-> SelectSeq(nodes, IsOpaqueMesh),
     transparent |-> SelectSeq(nodes, IsTransparentMesh),
     lights |-> SelectSeq(nodes, IsLight)]

----------------------------------------------------------------------------
\* The nodes scenes are built from

FlatGood == Material("FlatMaterial", "good", FALSE, FALSE)
PhongGood == Material("PhongMaterial", "good", FALSE, FALSE)
ShaderOf(kind) == Material("ShaderMaterial", kind, FALSE, FALSE)

SceneMeshes ==
    {Mesh("ok", TRUE, FALSE, FlatGood),
     Mesh("ok", TRUE, TRUE, PhongGood),
     Mesh("ok", TRUE, FALSE, ShaderOf("bad")),
     Mesh("ok", TRUE, TRUE, ShaderOf("none")),
     Mesh("ok", FALSE, FALSE, FlatGood),
     Mesh("disposed", TRUE, FALSE, FlatGood),
     Mesh("no_vertex_data", TRUE, TRUE, FlatGood),
     Mesh("no_attributes", TRUE, FALSE, FlatGood)}

SceneLights == {Light("DirectionalLight", 2, 3)}

SceneNodes == SceneMeshes \cup SceneLights

----------------------------------------------------------------------------
\* Operations

\* the renderer after construction, whatever the light list
InitRenderer ==
    /\ scene = <<>>
    /\ touched_ = FALSE
    /\ opaque_ = <<>>
    /\ transparent_ = <<>>
    /\ programs_ = [k \in {} |-> 0]
    /\ depth_mask = TRUE
    /\ blending = FALSE
    /\ rendered_objects_counter_ = 0
    /\ rendered_objects_per_frame_ = 0
    /\ trace = <<>>
    /\ crashed = FALSE
    /\ last_op = "init"
    /\ rebuilds = 0
    /\ provider_calls = [k \in ProgramKeys |-> 0]
    /\ compile_calls = [k \in ProgramKeys |-> 0]
    /\ info_logs = 0
    /\ calls = <<>>
    /\ light_result = NoLightResult
    /\ fog = NoFog
    /\ camera = [transform |-> Home, view_transform |-> ViewOf(Home)]
    /\ frustum_ = DefaultFrustum
    /\ bounding_sphere = NoBoundingSphere

Init == InitRenderer /\ lights_ = <<>>

\* Node::Add on the scene: the scene grows by a node and is marked touched
AddNode(n) ==
    /\ ~crashed
    /\ Len(scene) < MaxNodes
    /\ scene' = Append(scene, n)
    /\ touched_' = TRUE
    /\ rebuilds' = 0
    /\ last_op' = "AddNode"
    /\ UNCHANGED <<opaque_, transparent_, lights_, programs_, depth_mask, blending,
                   rendered_objects_counter_, rendered_objects_per_frame_, trace,
                   crashed, provider_calls, compile_calls, info_logs, calls,
                   light_result, fog, camera, frustum_, bounding_sphere>>

\* the application moves the camera: its world transform changes, its view
\* transform is recomputed by the next Render
MoveCamera(p) ==
    /\ ~crashed
    /\ p # camera.transform
    /\ camera' = [camera EXCEPT !.transform = p]
    /\ last_op' = "MoveCamera"
    /\ UNCHANGED <<scene, touched_, opaque_, transparent_, lights_, programs_,
                   depth_mask, blending, rendered_objects_counter_,
                   rendered_objects_per_frame_, trace, crashed, rebuilds,
                   provider_calls, compile_calls, info_logs, calls, light_result,
                   fog, frustum_, bounding_sphere>>

\* the application sets up an empty scene in one go: a mesh, lights, fog
SetScene(mesh, lights, scene_fog) ==
    /\ scene = <<>>
    /\ scene' = <<mesh>> \o lights
    /\ fog' = scene_fog
    /\ touched_' = TRUE
    /\ rebuilds' = 0
    /\ last_op' = "SetScene"
    /\ UNCHANGED <<opaque_, transparent_, lights_, programs_, depth_mask, blending,
                   rendered_objects_counter_, rendered_objects_per_frame_, trace,
                   crashed, provider_calls, compile_calls, info_logs, calls,
                   light_result, camera, frustum_, bounding_sphere>>

\* a frame that leaves the scene's world transforms as they are
BeginFrame_NoTransformUpdate(r, transform) ==
    EmitWith([Emit(r, "glClear", "none", 0) EXCEPT !.view = ViewOf(transform)],
             "SetViewTransform", "none", 0, <<ViewOf(transform)>>)

\* lines 248-251: the frame is cleared, the scene's world transforms and the
\* camera's view transform are brought up to date
BeginFrame(r, transform) ==
    LET r1 == Emit(r, "glClear", "none", 0)
        r2 == Emit(r1, "UpdateTransformHierarchy", "none", 0)
    IN  EmitWith([r2 EXCEPT !.view = ViewOf(transform)],
                 "SetViewTransform", "none", 0, <<ViewOf(transform)>>)

\* the lists rebuilt in every frame
NeedsRebuild_Always(touched) == TRUE

\* line 253: the lists are rebuilt when the scene is touched
NeedsRebuild(touched) == touched

\* line 255: the flag after the rebuild
TouchedAfterRebuild == FALSE

\* Renderer::Impl::Render
Render(ub, oob) ==
    /\ ~crashed
    /\ LET r0 == [programs |-> programs_, depth_mask |-> depth_mask,
                  blending |-> blending, counter |-> rendered_objects_counter_,
                  per_frame |-> rendered_objects_per_frame_, trace |-> <<>>,
                  crashed |-> FALSE, light_result |-> light_result,
                  frustum |-> frustum_, view |-> camera.view_transform,
                  fog |-> fog]
           r1 == BeginFrame(r0, camera.transform)
           rebuild == NeedsRebuild(touched_)
           lists == IF rebuild THEN ProcessScene(scene)
                    ELSE [opaque |-> opaque_, transparent |-> transparent_,
                          lights |-> lights_]
           r2 == IF rebuild THEN Emit(r1, "ProcessScene", "none", 0) ELSE r1
       IN  \E r \in {RenderObjects(r2, lists.opaque, lists.transparent,
                                    lists.lights, ub, oob)} :
           /\ opaque_' = lists.opaque
           /\ transparent_' = lists.transparent
           /\ lights_' = lists.lights
           /\ touched_' = IF rebuild THEN TouchedAfterRebuild ELSE touched_
           /\ rebuilds' = IF rebuild THEN rebuilds + 1 ELSE rebuilds
           /\ programs_' = r.programs
           /\ depth_mask' = r.depth_mask
           /\ blending' = r.blending
           /\ rendered_objects_counter_' = r.counter
           /\ rendered_objects_per_frame_' = r.per_frame
           /\ trace' = r.trace
           /\ crashed' = r.crashed
           /\ light_result' = r.light_result
           /\ frustum_' = r.frustum
           /\ camera' = [camera EXCEPT !.view_transform = r.view]
    /\ last_op' = "Render"
    /\ UNCHANGED <<scene, provider_calls, compile_calls, info_logs, calls, fog, bounding_sphere>>

\* a light list of at most NumLightSlots lights never indexes past the array,
\* so the out-of-bounds outcome is only chosen for longer ones
OutcomesFor(lights) ==
    IF Len(lights) > NumLightSlots THEN OutOfBoundsOutcomes ELSE {"abort"}

DoRender ==
    \E ub \in NullDerefOutcomes, oob \in OutcomesFor(SelectSeq(scene, IsLight)) :
        Render(ub, oob)

DoAddNode == \E n \in SceneNodes : AddNode(n)

Next == DoRender \/ DoAddNode

Spec == Init /\ [][Next]_vars

----------------------------------------------------------------------------
\* Frames of one mesh, over every material variant, geometry layout, fog and
\* light mix

MeshMaterials ==
    {Material(t, "good", tex, flat) :
        t \in {"FlatMaterial", "PhongMaterial"}, tex \in BOOLEAN, flat \in BOOLEAN}
    \cup {ShaderOf("good")}

\* (index count, vertex count) of the geometries: indexed and not
GeometryLayouts == {<<0, 3>>, <<0, 4>>, <<6, 4>>}

MeshInputs ==
    {MeshOf("ok", Home, FALSE, m, p, g[1], g[2]) :
        m \in MeshMaterials, p \in PrimitiveTypes, g \in GeometryLayouts}

MeshLightLists ==
    {<<>>,
     <<Light("AmbientLight", 1, 1)>>,
     <<Light("DirectionalLight", 2, 3)>>,
     <<Light("AmbientLight", 1, 1), Light("PointLight", 1, 1),
       Light("SpotLight", 2, 3)>>}

DoSetScene ==
    \E mesh \in MeshInputs, lights \in MeshLightLists,
       scene_fog \in FogTypes \cup {NoFog} :
        SetScene(mesh, lights, scene_fog)

NextMesh == DoRender \/ DoSetScene

SpecMesh == Init /\ [][NextMesh]_vars

----------------------------------------------------------------------------
\* Frames with a camera that moves between them

CameraNodes ==
    {Mesh("ok", TRUE, FALSE, FlatGood),
     Mesh("ok", FALSE, FALSE, FlatGood),
     Mesh("ok", FALSE, TRUE, PhongGood),
     Mesh("no_vertex_data", TRUE, FALSE, FlatGood)}

DoAddCameraNode == \E n \in CameraNodes : AddNode(n)

DoMoveCamera == \E p \in {Home, Away} : MoveCamera(p)

NextCamera == DoRender \/ DoAddCameraNode \/ DoMoveCamera

SpecCamera == Init /\ [][NextCamera]_vars

----------------------------------------------------------------------------
\* The debug geometry on its own

\* BoundingSphere::BoundingSphere: the node is built around its geometry
NewBoundingSphere(sphere) ==
    /\ ~bounding_sphere.constructed
    /\ \E g \in {CreateGeometry(sphere)} :
          bounding_sphere' = [constructed |-> TRUE, sphere |-> sphere, geometry |-> g]
    /\ last_op' = "BoundingSphere"
    /\ UNCHANGED <<scene, touched_, opaque_, transparent_, lights_, programs_,
                   depth_mask, blending, rendered_objects_counter_,
                   rendered_objects_per_frame_, trace, crashed, rebuilds,
                   provider_calls, compile_calls, info_logs, calls, light_result,
                   fog, camera, frustum_>>

NextSphere == \E sphere \in Spheres : NewBoundingSphere(sphere)

SpecSphere == Init /\ [][NextSphere]_vars

----------------------------------------------------------------------------
\* The program cache on its own: GetProgram called directly

CallGetProgram(attrs) ==
    /\ Len(calls) < MaxCalls
    /\ LET got == GetProgram(programs_, attrs) IN
       /\ programs_' = got.programs
       /\ provider_calls' = [provider_calls EXCEPT
                               ![attrs.key] = @ + IF got.queried THEN 1 ELSE 0]
       /\ compile_calls' = [compile_calls EXCEPT
                              ![attrs.key] = @ + IF got.compiled THEN 1 ELSE 0]
       /\ info_logs' = info_logs + IF got.logged THEN 1 ELSE 0
       /\ calls' = Append(calls, [key |-> attrs.key, handle |-> got.handle])
    /\ last_op' = "GetProgram"
    /\ UNCHANGED <<scene, touched_, opaque_, transparent_, lights_, depth_mask,
                   blending, rendered_objects_counter_, rendered_objects_per_frame_,
                   trace, crashed, rebuilds, light_result, fog, camera, frustum_, bounding_sphere>>

NextPrograms == \E attrs \in ProgramInputs : CallGetProgram(attrs)

SpecPrograms == Init /\ [][NextPrograms]_vars

----------------------------------------------------------------------------
\* UpdateLights on its own, over a given light list

\* all sequences over S of length at most n
SeqsUpTo(S, n) == UNION {[1..k -> S] : k \in 0..n}

CallUpdateLights(oob) ==
    /\ ~light_result.called
    /\ \E res \in {UpdateLights(lights_, oob)} :
          /\ light_result' = res
          /\ crashed' = res.aborted
    /\ last_op' = "UpdateLights"
    /\ UNCHANGED <<scene, touched_, opaque_, transparent_, lights_, programs_,
                   depth_mask, blending, rendered_objects_counter_,
                   rendered_objects_per_frame_, trace, rebuilds, provider_calls,
                   compile_calls, info_logs, calls, fog, camera, frustum_, bounding_sphere>>

NextLights == \E oob \in OutcomesFor(lights_) : CallUpdateLights(oob)

\* light lists of every type mix, within the slot capacity
InitLights == InitRenderer /\ lights_ \in SeqsUpTo(Lights, MaxLights)

SpecLights == InitLights /\ [][NextLights]_vars

\* long light lists of ambient and point lights, up to and past the capacity
CapLights == {Light("AmbientLight", 1, 1), Light("PointLight", 1, 1)}

InitLightCap == InitRenderer /\ lights_ \in SeqsUpTo(CapLights, MaxCapLights)

SpecLightCap == InitLightCap /\ [][NextLights]_vars

----------------------------------------------------------------------------
\* Properties of a frame, read off the calls of the last Render

\* the list the frame iterated under the given name
ListOf(list) == IF list = "opaque" THEN opaque_ ELSE transparent_

\* the positions of the trace with the given call for the mesh (list, pos)
At(op, list, pos) ==
    {i \in 1..Len(trace) :
        trace[i].op = op /\ trace[i].list = list /\ trace[i].pos = pos}

\* the calls RenderMesh makes for a mesh once its program is taken for usable
UseOps ==
    {"ProcessMaterial", "UpdateLights", "Bind", "SetUniforms", "UseProgram",
     "UpdateUniforms", "draw"}

\* the mesh (list, pos) was entered and left without any use of a program,
\* the counter is where it was, and the next mesh of the list was entered
SkippedAndContinued(list, pos) ==
    /\ \A op \in UseOps : At(op, list, pos) = {}
    /\ \A i \in At("RenderMesh", list, pos) : \A j \in At("return", list, pos) :
          trace[i].count = trace[j].count
    /\ At("return", list, pos) # {}
    /\ pos < Len(ListOf(list)) => At("RenderMesh", list, pos + 1) # {}

MeshPositions ==
    {<<"opaque", p>> : p \in 1..Len(opaque_)}
    \cup {<<"transparent", p>> : p \in 1..Len(transparent_)}

\* C1: in every Render, every draw call for a mesh of the opaque list comes
\* before every draw call for a mesh of the transparent list, and within a
\* list the draw calls come in the order of the list.
C1_DrawOrder ==
    \A i, j \in 1..Len(trace) :
        (i < j /\ trace[i].op = "draw" /\ trace[j].op = "draw") =>
            /\ trace[i].pos \in 1..Len(ListOf(trace[i].list))
            /\ trace[i].list = "transparent" => trace[j].list = "transparent"
            /\ trace[i].list = trace[j].list => trace[i].pos < trace[j].pos

\* C1 witness: a frame that drew two opaque meshes and a transparent one
C1_Witness ==
    /\ Cardinality({p \in 1..Len(opaque_) : At("draw", "opaque", p) # {}}) >= 2
    /\ \E p \in 1..Len(transparent_) : At("draw", "transparent", p) # {}

C3_NullProgramSkipped ==
    \A m \in MeshPositions :
        At("null program", m[1], m[2]) # {} =>
            /\ ~crashed
            /\ SkippedAndContinued(m[1], m[2])

\* C5: a mesh whose geometry is disposed, has no vertex data or has no
\* attributes is warned about once, produces no draw call, leaves the
\* rendered-object counter alone, and the next mesh of the list is rendered.
C5_InvalidMeshSkipped ==
    \A m \in MeshPositions :
        (ListOf(m[1])[m[2]].geometry # "ok" /\ At("RenderMesh", m[1], m[2]) # {}) =>
            /\ Cardinality(At("warning", m[1], m[2])) = 1
            /\ At("GetProgram", m[1], m[2]) = {}
            /\ SkippedAndContinued(m[1], m[2])

\* C5 witness: a frame with a mesh of each invalid kind, all warned about
C5_Witness ==
    \A g \in GeometryStates \ {"ok"} :
        \E m \in MeshPositions :
            ListOf(m[1])[m[2]].geometry = g /\ At("warning", m[1], m[2]) # {}

\* C6: a mesh whose resolved program has a compile/link error or the id 0 is
\* skipped before any state binding, buffer binding, uniform upload or draw
\* call, the counter is not incremented, and the next mesh is rendered.
C6_InvalidProgramSkipped ==
    \A m \in MeshPositions :
        LET key == ProgramKey(ListOf(m[1])[m[2]].material, lights_, fog) IN
        (/\ At("GetProgram", m[1], m[2]) # {}
         /\ key \in DOMAIN programs_
         /\ (programs_[key].has_errors_ \/ programs_[key].program_ = 0)) =>
            SkippedAndContinued(m[1], m[2])

\* C6 witness: a frame in which a mesh with a failed program is followed by a
\* mesh that is drawn
C6_Witness ==
    \E p \in 1..Len(opaque_) :
        /\ At("invalid program", "opaque", p) # {}
        /\ At("draw", "opaque", p + 1) # {}

\* C10: a Render call runs ProcessScene exactly when the scene is touched at
\* the call and leaves it untouched; between two scene mutations the lists
\* are rebuilt at most once.
C10_LazyRebuild ==
    /\ [][last_op' = "Render" =>
            /\ (\E i \in 1..Len(trace') : trace'[i].op = "ProcessScene") <=> touched_
            /\ ~touched_']_vars
    /\ [](rebuilds <= 1)

\* C10 witness: a Render that did not rebuild lists built by an earlier Render
C10_Witness ==
    /\ last_op = "Render"
    /\ rebuilds = 1
    /\ Len(opaque_) > 0
    /\ \A i \in 1..Len(trace) : trace[i].op # "ProcessScene"

\* the mesh at position m = <<list, pos>> of the lists
MeshAt(m) == ListOf(m[1])[m[2]]

\* the names the call at position i of the trace was given
Names(i) == {trace[i].arg[k] : k \in 1..Len(trace[i].arg)}

\* C14: a mesh that reaches the draw step gets exactly one draw call: an
\* indexed draw over the index count if it has index data, else a draw over
\* the vertex count; lines for Lines, line-loop for LineLoop, else triangles.
C14_OneDrawCall ==
    \A m \in MeshPositions :
        At("UpdateUniforms", m[1], m[2]) # {} =>
            LET mesh == MeshAt(m)
                indexed == mesh.index_count > 0
            IN  /\ Cardinality(At("draw", m[1], m[2])) = 1
                /\ \A i \in At("draw", m[1], m[2]) :
                      /\ trace[i].arg[1] =
                            (IF indexed THEN "glDrawElements" ELSE "glDrawArrays")
                      /\ trace[i].arg[3] =
                            (IF indexed THEN mesh.index_count ELSE mesh.vertex_count)
                      /\ mesh.primitive = "Lines" => trace[i].arg[2] = "GL_LINES"
                      /\ mesh.primitive = "LineLoop" => trace[i].arg[2] = "GL_LINE_LOOP"
                      /\ mesh.primitive = "Triangles" => trace[i].arg[2] = "GL_TRIANGLES"

\* C14 witness: an indexed line geometry was drawn
C14_Witness ==
    \E m \in MeshPositions :
        /\ MeshAt(m).primitive = "Lines"
        /\ MeshAt(m).index_count > MeshAt(m).vertex_count
        /\ At("draw", m[1], m[2]) # {}

PhongNames ==
    {"u_Material.DiffuseColor", "u_Material.SpecularColor", "u_Material.Shininess"}

TextureNames == {"u_TextureMap", "u_TextureTransform"}

\* C15: for a mesh with a Phong material SetUniforms uploads the diffuse
\* colour, the specular colour and the shininess whatever the lights of the
\* scene, and the texture slot and transform exactly when the variant has a
\* texture map.
C15_PhongUniforms ==
    \A m \in MeshPositions : \A i \in At("SetUniforms", m[1], m[2]) :
        MeshAt(m).material.type = "PhongMaterial" =>
            /\ PhongNames \subseteq Names(i)
            /\ IF MeshAt(m).material.texture_map
               THEN TextureNames \subseteq Names(i)
               ELSE TextureNames \cap Names(i) = {}

\* C16: with LinearFog the colour, near and far uniforms are set and the
\* density is not; with ExponentialFog the colour and the density are set and
\* near and far are not; without fog no fog uniform is set.
C16_FogUniforms ==
    \A i \in 1..Len(trace) :
        trace[i].op = "SetUniforms" =>
            /\ fog = "LinearFog" =>
                  /\ {"u_Fog.Color", "u_Fog.Near", "u_Fog.Far"} \subseteq Names(i)
                  /\ "u_Fog.Density" \notin Names(i)
            /\ fog = "ExponentialFog" =>
                  /\ {"u_Fog.Color", "u_Fog.Density"} \subseteq Names(i)
                  /\ {"u_Fog.Near", "u_Fog.Far"} \cap Names(i) = {}
            /\ fog = NoFog =>
                  {"u_Fog.Type", "u_Fog.Color", "u_Fog.Near", "u_Fog.Far",
                   "u_Fog.Density"} \cap Names(i) = {}

\* C16 witness: uniforms were uploaded in a scene with exponential fog
C16_Witness ==
    /\ fog = "ExponentialFog"
    /\ \E i \in 1..Len(trace) :
          trace[i].op = "SetUniforms" /\ "u_Fog.Density" \in Names(i)

\* C17: UpdateLights runs for a drawn mesh exactly when the light list is not
\* empty and the mesh's program attributes flag light sensitivity; a frame
\* without such a mesh writes no light or ambient uniform.
C17_LightsWhenNeeded ==
    /\ [](\A m \in MeshPositions :
            At("draw", m[1], m[2]) # {} =>
                (At("UpdateLights", m[1], m[2]) # {}
                 <=> (/\ lights_ # <<>>
                      /\ ProgramAttributes(MeshAt(m).material, lights_, fog).lights)))
    /\ [][(/\ last_op' = "Render"
           /\ \A i \in 1..Len(trace') : trace'[i].op # "UpdateLights")
          => light_result' = light_result]_vars

\* C17 witness: under a light, a frame drew a light-sensitive mesh with the
\* light uniforms and a light-insensitive one without
C17_Witness ==
    /\ lights_ # <<>>
    /\ \E m \in MeshPositions :
          At("draw", m[1], m[2]) # {} /\ At("UpdateLights", m[1], m[2]) # {}
    /\ \E m \in MeshPositions :
          At("draw", m[1], m[2]) # {} /\ At("UpdateLights", m[1], m[2]) = {}

\* the calls of the mesh-draw sequence
SequenceOps ==
    {"SetWithViewProjection", "RenderMesh", "IsVisible", "culled", "GetProgram",
     "ProcessMaterial", "Bind", "SetUniforms", "draw", "RenderObjects returns"}

\* C18: a Render clears the frame, then updates the scene's transform
\* hierarchy, then rebuilds the lists if it does, then runs the mesh-draw
\* sequence: the transforms are updated before the lists are rebuilt and
\* before any mesh is culled or drawn.
C18_FrameOrder ==
    trace # <<>> =>
        /\ trace[1].op = "glClear"
        /\ trace[2].op = "UpdateTransformHierarchy"
        /\ \A i \in 1..Len(trace) :
              /\ trace[i].op = "glClear" => i = 1
              /\ trace[i].op = "UpdateTransformHierarchy" => i = 2
              /\ trace[i].op = "ProcessScene" =>
                    /\ i > 2
                    /\ \A j \in 1..Len(trace) : trace[j].op \in SequenceOps => i < j
        /\ \E i \in 1..Len(trace) : trace[i].op = "SetWithViewProjection"

\* C18 witness: a frame that rebuilt the lists, culled a mesh and drew one
C18_Witness ==
    \E i, j, k \in 1..Len(trace) :
        /\ trace[i].op = "ProcessScene"
        /\ trace[j].op = "culled"
        /\ trace[k].op = "draw"

\* every call op1 for the mesh comes before every call op2 for it
Before(op1, op2, m) ==
    \A i \in At(op1, m[1], m[2]) : \A j \in At(op2, m[1], m[2]) : i < j

C20_FreshFrustum ==
    (last_op = "Render" /\ ~crashed) =>
        /\ frustum_ = FrustumOf(ViewOf(camera.transform))
        /\ \A i \in 1..Len(trace) :
              /\ trace[i].op = "SetWithViewProjection" =>
                    /\ trace[i].arg = <<ViewOf(camera.transform)>>
                    /\ \E j \in 1..(i - 1) : trace[j].op = "SetViewTransform"
              /\ trace[i].op = "IsVisible" =>
                    /\ trace[i].arg = <<FrustumOf(ViewOf(camera.transform))>>
                    /\ \E j \in 1..(i - 1) : trace[j].op = "SetWithViewProjection"

\* C20 witness: after the camera moved away, a frame culled a mesh at its
\* old place and drew one at its new place
C20_Witness ==
    /\ last_op = "Render"
    /\ camera.transform = Away
    /\ \E m \in MeshPositions : MeshAt(m).at = Home /\ At("culled", m[1], m[2]) # {}
    /\ \E m \in MeshPositions : MeshAt(m).at = Away /\ At("draw", m[1], m[2]) # {}

\* the draw calls of the last frame
DrawCalls == {i \in 1..Len(trace) : trace[i].op = "draw"}

\* C21: after a Render call the per-frame count is the number of draw calls
\* of that frame alone and the running counter is 0 again, whatever frames
\* came before.
C21_CountPerFrame ==
    /\ ~crashed => rendered_objects_counter_ = 0
    /\ (last_op = "Render" /\ ~crashed) =>
          rendered_objects_per_frame_ = Cardinality(DrawCalls)

\* C21 witness: a frame after the one that rebuilt the lists counted two
\* draw calls
C21_Witness ==
    /\ last_op = "Render" /\ ~crashed
    /\ rebuilds = 1
    /\ \A i \in 1..Len(trace) : trace[i].op # "ProcessScene"
    /\ Cardinality(DrawCalls) = 2
    /\ rendered_objects_per_frame_ = 2

\* the calls that resolve a program for a mesh
ResolveOps == {"GetProgram", "GetShaderSource", "new GLProgram"}

\* the mesh was turned away by the validity check or by the frustum test
Rejected(m) == At("warning", m[1], m[2]) # {} \/ At("culled", m[1], m[2]) # {}

\* C22: the validity check comes before the visibility test; for a mesh
\* rejected by either no program is resolved, queried for or compiled and no
\* material state, buffer, texture or uniform is touched, and a frame that
\* rejects every mesh leaves the program cache, the blending state and the
\* light uniforms as they were.
C22_RejectedMeshNoEffect ==
    /\ [](\A m \in MeshPositions :
            At("RenderMesh", m[1], m[2]) # {} =>
                /\ MeshAt(m).geometry # "ok" =>
                      /\ At("warning", m[1], m[2]) # {}
                      /\ At("IsVisible", m[1], m[2]) = {}
                /\ (MeshAt(m).geometry = "ok" /\ ~IsVisible(MeshAt(m), frustum_)) =>
                      At("culled", m[1], m[2]) # {}
                /\ Rejected(m) =>
                      /\ \A op \in ResolveOps \cup UseOps : At(op, m[1], m[2]) = {}
                      /\ \A i \in At("RenderMesh", m[1], m[2]) :
                            \A j \in At("return", m[1], m[2]) :
                               trace[i].count = trace[j].count)
    /\ [][(/\ last_op' = "Render"
           /\ \A i \in 1..Len(trace') : trace'[i].op # "GetProgram")
          => /\ programs_' = programs_
             /\ blending' = blending
             /\ light_result' = light_result]_vars

\* C22 witness: with programs in the cache, a frame warned about a mesh,
\* culled another and drew none
C22_Witness ==
    /\ last_op = "Render"
    /\ DOMAIN programs_ # {}
    /\ \E m \in MeshPositions : At("warning", m[1], m[2]) # {}
    /\ \E m \in MeshPositions : At("culled", m[1], m[2]) # {}
    /\ DrawCalls = {}

----------------------------------------------------------------------------
\* Properties of the program cache, read off the direct GetProgram calls

SameKeySameHandle ==
    \A i, j \in 1..Len(calls) :
        calls[i].key = calls[j].key => calls[i].handle = calls[j].handle

CallsWith(key) == Cardinality({i \in 1..Len(calls) : calls[i].key = key})

\* C4 (as claimed): repeated calls with the same key return the same handle,
\* and the provider is queried and a program constructed at most once per
\* key, exactly one program being compiled for every key ever seen.
C4_OncePerKey ==
    /\ SameKeySameHandle
    /\ \A k \in ProgramKeys : provider_calls[k] <= 1 /\ compile_calls[k] <= 1
    /\ \A i \in 1..Len(calls) : compile_calls[calls[i].key] = 1

\* C4 (amended): repeated calls with the same key return the same handle and
\* never compile twice; a key with sources has the provider queried and a
\* program constructed exactly once, a key without sources has the provider
\* queried on every call, no program constructed and null returned.
C4_OncePerSourcedKey ==
    /\ SameKeySameHandle
    /\ \A k \in ProgramKeys : compile_calls[k] <= 1
    /\ \A i \in 1..Len(calls) :
          LET k == calls[i].key IN
          IF k.shader # "none"
          THEN /\ provider_calls[k] = 1
               /\ compile_calls[k] = 1
               /\ calls[i].handle # NullHandle
          ELSE /\ provider_calls[k] = CallsWith(k)
               /\ compile_calls[k] = 0
               /\ calls[i].handle = NullHandle

\* C4 witness: a key with sources and a key without, each asked for twice
C4_Witness ==
    /\ \E i, j \in 1..Len(calls) :
          i < j /\ calls[i].key = calls[j].key /\ calls[i].key.shader = "good"
    /\ \E i, j \in 1..Len(calls) :
          i < j /\ calls[i].key = calls[j].key /\ calls[i].key.shader = "none"

\* C11: the set of cached keys never shrinks, and a cached key keeps the
\* program it was given: nothing is replaced, evicted or compiled again.
C11_CacheGrowsOnly ==
    /\ [][\A k \in DOMAIN programs_ :
             k \in DOMAIN programs_' /\ programs_'[k] = programs_[k]]_vars
    /\ [](\A k \in ProgramKeys : compile_calls[k] <= 1)

\* C11 witness: two programs in the cache and a call that hit one of them
C11_Witness ==
    /\ Cardinality(DOMAIN programs_) >= 2
    /\ \E i, j \in 1..Len(calls) :
          /\ i < j /\ calls[i].key = calls[j].key
          /\ \E m \in (i + 1)..(j - 1) :
                calls[m].key # calls[i].key /\ calls[m].handle # NullHandle

\* C12: a call that misses and gets no sources from the provider returns null
\* and leaves the cache as it was; every other call returns a non-null handle
\* to the program cached under the key.
C12_NullOnlyWithoutSources ==
    [][Len(calls') = Len(calls) + 1 =>
          LET c == calls'[Len(calls')] IN
          IF c.key \notin DOMAIN programs_ /\ GetShaderSource([key |-> c.key]) = <<>>
          THEN /\ c.handle = NullHandle
               /\ programs_' = programs_
               /\ compile_calls' = compile_calls
          ELSE /\ c.handle # NullHandle
               /\ c.key \in DOMAIN programs_'
               /\ programs_'[c.key].object = c.handle]_vars

\* C12 witness: a null return behind a compiling miss and a hit
C12_Witness ==
    \E i, j, m \in 1..Len(calls) :
        /\ i < j /\ j < m
        /\ calls[i].key = calls[j].key /\ calls[i].handle # NullHandle
        /\ calls[m].handle = NullHandle

\* C13: the creation of a program is logged exactly once: the log holds as
\* many entries as the cache holds programs, and a call that creates no
\* program logs nothing.
C13_OneLogPerProgram ==
    /\ [](info_logs = Cardinality(DOMAIN programs_))
    /\ [][info_logs' = info_logs +
             (IF DOMAIN programs_' = DOMAIN programs_ THEN 0 ELSE 1)]_vars

\* C13 witness: two creations logged over a hit and a source-less miss
C13_Witness ==
    /\ info_logs = 2
    /\ \E i \in 1..Len(calls) : calls[i].handle = NullHandle
    /\ \E i, j \in 1..Len(calls) : i < j /\ calls[i].key = calls[j].key

----------------------------------------------------------------------------
\* Properties of UpdateLights, read off its last call

NonAmbientBefore(i) ==
    Cardinality({j \in 1..(i - 1) : lights_[j].type # "AmbientLight"})

RECURSIVE AmbientSum(_)
AmbientSum(i) ==
    IF i = 0 THEN 0
    ELSE AmbientSum(i - 1) +
         (IF lights_[i].type = "AmbientLight"
          THEN lights_[i].color * lights_[i].intensity ELSE 0)

\* C7: with at most 9 non-ambient lights in the list, every index used in
\* light_uniforms[idx] lies in 0..8.
C7_LookupsInRange ==
    (light_result.called /\ NonAmbientBefore(Len(lights_) + 1) <= NumLightSlots) =>
        \A i \in 1..Len(light_result.lookups) :
            light_result.lookups[i] \in 0..(NumLightSlots - 1)

\* C8: u_AmbientLight is uploaded exactly once, as the last upload, and its
\* value is the sum of color * intensity over the ambient lights of the list.
C8_AmbientIsSum ==
    (light_result.called /\ ~light_result.aborted) =>
        LET w == light_result.writes IN
        /\ Cardinality({i \in 1..Len(w) : w[i].field = "u_AmbientLight"}) = 1
        /\ w[Len(w)].field = "u_AmbientLight"
        /\ w[Len(w)].value = AmbientSum(Len(lights_))

\* C9: the k-th non-ambient light of the list (k from 0) writes its type and
\* parameters into slot k, an ambient light writes into no slot, and the
\* populated slots are 0 .. (number of non-ambient lights - 1).
C9_SlotsInCollectionOrder ==
    (light_result.called /\ ~light_result.aborted) =>
        LET w == light_result.writes
            n == NonAmbientBefore(Len(lights_) + 1)
        IN
        /\ \A i \in 1..Len(lights_) :
              LET mine == {j \in 1..Len(w) : w[j].from = i} IN
              IF lights_[i].type = "AmbientLight" THEN mine = {}
              ELSE /\ \A j \in mine : w[j].slot = NonAmbientBefore(i)
                   /\ \E j \in mine :
                         w[j].field = ".Type" /\ w[j].value = LightTypeTag(lights_[i].type)
                   /\ \E j \in mine :
                         /\ w[j].field = ".Color"
                         /\ w[j].value = lights_[i].color * lights_[i].intensity
        /\ {w[j].slot : j \in 1..Len(w)} \ {NoSlot} = 0..(n - 1)
        /\ light_result.idx = n

\* C9 witness: 1 ambient + 2 directional + 1 point light populate slots 0..2
C9_Witness ==
    /\ light_result.called
    /\ Len(lights_) = 4
    /\ lights_[1].type = "AmbientLight"
    /\ lights_[2].type = "DirectionalLight"
    /\ lights_[3].type = "DirectionalLight"
    /\ lights_[4].type = "PointLight"
    /\ {light_result.writes[j].slot : j \in 1..Len(light_result.writes)}
          = {NoSlot, 0, 1, 2}

----------------------------------------------------------------------------
\* Properties of the debug geometry

VertexCount == Len(bounding_sphere.geometry.vertices) \div 3

\* the two indices of segment s, counted from 1
SegmentAt(s) ==
    <<bounding_sphere.geometry.indices[2 * s - 1],
      bounding_sphere.geometry.indices[2 * s]>>

\* the ring of a vertex, rings holding 65 vertices each
RingOf(v) == v \div 65

\* the coordinate the vertex v (counted from 0) leaves at the centre
FixedCoordinate(v) ==
    {k \in 1..3 : bounding_sphere.geometry.vertices[3 * v + k].fn = "none"}

\* C23: the debug geometry has 3 rings of 65 vertices (195 vertices) and 64
\* segments a ring (384 indices); every index is below the vertex count and
\* the two indices of a segment are consecutive vertices of one ring.
C23_ThreeRings ==
    bounding_sphere.constructed =>
        LET indices == bounding_sphere.geometry.indices IN
        /\ Len(bounding_sphere.geometry.vertices) = 3 * 195
        /\ \A v \in 0..194 : FixedCoordinate(v) = {3 - RingOf(v)}
        /\ Len(indices) = 384
        /\ \A k \in 1..Len(indices) : indices[k] >= 0 /\ indices[k] < VertexCount
        /\ \A s \in 1..(Len(indices) \div 2) :
              /\ SegmentAt(s)[2] = SegmentAt(s)[1] + 1
              /\ RingOf(SegmentAt(s)[1]) = RingOf(SegmentAt(s)[2])
        /\ \A ring \in 0..2 :
              Cardinality({s \in 1..(Len(indices) \div 2) :
                              RingOf(SegmentAt(s)[1]) = ring}) = 64

\* C23 witness: the geometry of a sphere off the origin, with its last
\* segment ending at the last vertex
C23_Witness ==
    /\ bounding_sphere.constructed
    /\ bounding_sphere.sphere.center = <<1, 0, 0 - 1>>
    /\ bounding_sphere.sphere.radius = 2
    /\ bounding_sphere.geometry.indices[Len(bounding_sphere.geometry.indices)]
          = VertexCount - 1

====
